---------------------------- MODULE Spec2Model ----------------------------
(***************************************************************************)
(* A model of isd_s3.py, the object-store helper module of isd-s3.         *)
(*                                                                         *)
(* Every public function of the module that the properties below are       *)
(* about is one action: the action takes the call's arguments and what     *)
(* the collaborators (the boto3 client, the filesystem) answer, and        *)
(* records the call's outcome: its return value, the exception that left   *)
(* it, the store calls it issued and the lines it printed.                 *)
(*                                                                         *)
(* Python strings that the code slices or matches are sequences of         *)
(* one-character strings.                                                  *)
(***************************************************************************)
EXTENDS Integers, Sequences, FiniteSets, TLC

VARIABLES
    pc,      \* "idle": no call in progress; "done": a call has ended
    op,      \* the function called
    args,    \* its arguments
    env,     \* what the collaborators answer during the call
    ret,     \* the value returned (NoneValue when the call raised)
    exc,     \* the exception that left the call, "None" when it returned
    calls,   \* the store calls issued, in order
    events,  \* processes started and joined, metadata callables invoked
    out      \* the lines printed

vars == <<pc, op, args, env, ret, exc, calls, events, out>>

---------------------------------------------------------------------------
(* Bounds of the model.                                                    *)

\* Longest block-size string given to parse_block_size.
MaxStrLen == 3
\* Most objects in one listing.
MaxObjs == 3
\* Most pages the store splits one listing into.
MaxPages == 2
\* Significand width of the model's binary floating point (Python: 53).
MantissaBits == 5
\* Most files in the local directory tree.
MaxFiles == 3

---------------------------------------------------------------------------
(* Python values.                                                          *)

NoneValue == [none |-> TRUE]

\* The outcome of a call: what it returned or raised, and what it did.
Outcome(r, e, c, ev, o) == [ret |-> r, exc |-> e, calls |-> c, events |-> ev, out |-> o]

Returned(r, c, ev, o) == Outcome(r, "None", c, ev, o)

Raised(e, c, ev, o) == Outcome(NoneValue, e, c, ev, o)

\* All sequences over S of length at most n.
SeqsUpTo(S, n) == UNION {[1..k -> S] : k \in 0..n}

\* s[-n:] and s[:-n] for n <= len(s).
Last(s, n) == SubSeq(s, Len(s) - n + 1, Len(s))

DropLast(s, n) == SubSeq(s, 1, Len(s) - n)

\* The names bound at module level once the module is loaded: the imports,
\* the module variables, the functions and the class.
ModuleGlobals ==
    {"pdb", "sys", "os", "json", "re", "boto3", "logging", "multiprocessing",
     "logger", "_is_imported", "client",
     "get_session", "list_buckets", "directory_list", "parse_block_size",
     "disk_usage", "list_objects", "regex_filter", "get_metadata",
     "upload_object", "get_filelist", "upload_mult_objects",
     "interpret_metadata_str", "delete", "get_object", "delete_mult",
     "search_metadata", "pretty_print", "exit_session", "ISD_S3_Exception"}

\* Whether a name that is no local of the running function resolves
\* (none of the names looked up below is a builtin).
NameResolves(name) == name \in ModuleGlobals

---------------------------------------------------------------------------
(* parse_block_size                                                        *)

Digits == {"0", "1", "2", "3"}

DigitVal(c) == CASE c = "0" -> 0 [] c = "1" -> 1 [] c = "2" -> 2 [] c = "3" -> 3

\* The characters block-size strings are made of.
BlockChars == Digits \cup {"-", "K", "M", "G", "T", "B", "Z", "X", "k", "b"}

\* str.upper(), one character.
UpperChar(c) == CASE c = "k" -> "K" [] c = "b" -> "B" [] OTHER -> c

Upper(s) == [i \in 1..Len(s) |-> UpperChar(s[i])]

RECURSIVE DecVal(_)
DecVal(s) == IF s = <<>> THEN 0 ELSE 10 * DecVal(DropLast(s, 1)) + DigitVal(s[Len(s)])

AllDigits(s) == Len(s) > 0 /\ \A i \in 1..Len(s) : s[i] \in Digits

\* int(s) over BlockChars: an optional sign, then digits; anything else
\* raises ValueError.
IntParses(s) == AllDigits(s) \/ (Len(s) > 1 /\ s[1] = "-" /\ AllDigits(Tail(s)))

IntValue(s) == IF s[1] = "-" THEN 0 - DecVal(Tail(s)) ELSE DecVal(s)

\* A Python integer coef * 10^exp: Python integers are unbounded, TLC's
\* are 32 bits wide and do not hold 10^12, so the power of ten is kept
\* apart.
Big(c, e) == [coef |-> c, exp |-> e]

BigMul(b, n) == Big(b.coef * n, b.exp)

\* The units table: unit -> divisor.
units == [KB |-> Big(1, 3), MB |-> Big(1, 6), GB |-> Big(1, 9), TB |-> Big(1, 12)]

UnitName(u) ==
    CASE u = <<"K", "B">> -> "KB"
      [] u = <<"M", "B">> -> "MB"
      [] u = <<"G", "B">> -> "GB"
      [] u = <<"T", "B">> -> "TB"
      [] OTHER -> "?"

parse_block_size(block_size_str) ==
    LET short == Len(block_size_str) < 3
        s == IF short THEN <<"1", "K", "B">> ELSE block_size_str
        out1 == IF short
                THEN <<"block_size doesn't have enough information", "defaulting to 1KB">>
                ELSE <<>>
        unit == UnitName(Upper(Last(s, 2)))
        lead == DropLast(s, 2)
    IN  IF ~IntParses(lead)
        THEN Raised("ValueError", <<>>, <<>>, out1)
        ELSE IF unit \notin DOMAIN units
        THEN Returned(BigMul(units["KB"], 1), <<>>, <<>>,
                      out1 \o <<"unrecognized unit.", "defaulting to 1KB">>)
        ELSE Returned(BigMul(units[unit], IntValue(lead)), <<>>, <<>>, out1)

---------------------------------------------------------------------------
(* The object store, as the boto3 client presents it.                      *)

KeyA == <<"a", "b", "c", "/", "d", "e", "f">>
KeyB == <<"b", "c", "/", "d">>
KeyC == <<"a", "b", "c">>
KeyD == <<"x">>

\* The objects a bucket may hold: key and size in bytes.
Objects ==
    {[Key |-> KeyA, Size |-> 1000], [Key |-> KeyB, Size |-> 2000],
     [Key |-> KeyC, Size |-> 3000], [Key |-> KeyD, Size |-> 100]}

Keys == {o.Key : o \in Objects}

RECURSIVE Flatten(_)
Flatten(pages) == IF pages = <<>> THEN <<>> ELSE Head(pages) \o Flatten(Tail(pages))

NoDuplicates(s) == \A i, j \in 1..Len(s) : s[i] = s[j] => i = j

\* The ways to cut a run of n records into k pages: the index of the last
\* record of each page but the last.
Cuts(n, k) == {c \in [1..k - 1 -> 0..n] : \A i \in 1..k - 2 : c[i] <= c[i + 1]}

Paged(s, k, c) ==
    [i \in 1..k |-> SubSeq(s, (IF i = 1 THEN 0 ELSE c[i - 1]) + 1,
                               IF i = k THEN Len(s) ELSE c[i])]

\* The listings of a bucket and prefix: one to MaxPages pages, no key twice
\* (the store lists a key once).  A page may hold no record.
Listings ==
    UNION {UNION {{Paged(s, k, c) : c \in Cuts(Len(s), k)} : k \in 1..MaxPages} :
           s \in {r \in SeqsUpTo(Objects, MaxObjs) : NoDuplicates(r)}}

\* client.list_objects_v2(Bucket, Prefix[, ContinuationToken]): the page the
\* token names (0: no token, the first page).  The response has no
\* 'Contents' entry when the page holds no record.
list_objects_v2(pages, token) ==
    LET i == IF token = 0 THEN 1 ELSE token
    IN  [HasContents |-> pages[i] /= <<>>,
         Contents |-> pages[i],
         IsTruncated |-> i < Len(pages),
         NextContinuationToken |-> i + 1]

ListCall(token) == [api |-> "list_objects_v2", token |-> token]

---------------------------------------------------------------------------
(* regex_filter and list_objects                                           *)

\* Regular expressions: a sequence of characters, each matching itself but
\* "." which matches any character.
RECURSIVE ReMatchAt(_, _, _)
ReMatchAt(regex, s, pos) ==
    IF regex = <<>> THEN TRUE
    ELSE IF pos > Len(s) THEN FALSE
    ELSE IF Head(regex) = "." \/ Head(regex) = s[pos]
         THEN ReMatchAt(Tail(regex), s, pos + 1)
         ELSE FALSE

\* regex.match(s) is not None: a match that starts at the first character.
ReMatch(regex, s) == ReMatchAt(regex, s, 1)

\* regex.search(s) is not None: a match that starts anywhere.  The module
\* never searches; this is what regex_filter would do if it did.
ReSearch(regex, s) == \E pos \in 1..Len(s) + 1 : ReMatchAt(regex, s, pos)

RECURSIVE RegexFilterSearch(_, _)
RegexFilterSearch(contents, regex_str) ==
    IF contents = <<>> THEN <<>>
    ELSE (IF ReSearch(regex_str, Head(contents).Key) THEN <<Head(contents)>> ELSE <<>>)
         \o RegexFilterSearch(Tail(contents), regex_str)

RECURSIVE regex_filter(_, _)
regex_filter(contents, regex_str) ==
    IF contents = <<>> THEN <<>>
    ELSE (IF ReMatch(regex_str, Head(contents).Key) THEN <<Head(contents)>> ELSE <<>>)
         \o regex_filter(Tail(contents), regex_str)

KeysOf(contents) == [i \in 1..Len(contents) |-> contents[i].Key]

\* The while loop of list_objects: response is the page last received.
RECURSIVE FollowPages(_, _, _, _)
FollowPages(pages, response, contents, issued) ==
    IF response.IsTruncated
    THEN LET token == response.NextContinuationToken
             next == list_objects_v2(pages, token)
             issued2 == Append(issued, ListCall(token))
         IN  IF next.HasContents
             THEN FollowPages(pages, next, contents \o next.Contents, issued2)
             ELSE Raised("KeyError", issued2, <<>>, <<>>)
    ELSE Returned(contents, issued, <<>>, <<>>)

\* An optional regular expression argument: None, or a string.
NoRegex == [given |-> FALSE, re |-> <<>>]

SomeRegex(r) == [given |-> TRUE, re |-> r]

\* list_objects(bucket, prefix, ls=False, keys_only, regex).
list_objects(pages, keys_only, regex) ==
    LET response == list_objects_v2(pages, 0)
        issued == <<ListCall(0)>>
    IN  IF ~response.HasContents
        THEN Returned(<<>>, issued, <<>>, <<>>)
        ELSE LET got == FollowPages(pages, response, response.Contents, issued)
                 filtered == IF regex.given
                             THEN regex_filter(got.ret, regex.re)
                             ELSE got.ret
             IN  IF got.exc /= "None" THEN got
                 ELSE Returned(IF keys_only THEN KeysOf(filtered) ELSE filtered,
                               got.calls, <<>>, <<>>)

\* The regular expressions given to the calls.
Regexes ==
    {<<>>, <<"a", "b", "c", "/">>, <<"b", "c", "/">>, <<"a", "b", "c">>,
     <<".", "b">>, <<"x">>, <<"a", "b", "c", "/", "d", "e", "f", "g">>}

---------------------------------------------------------------------------
(* disk_usage                                                              *)

RECURSIVE Pow2(_)
Pow2(k) == IF k = 0 THEN 1 ELSE 2 * Pow2(k - 1)

RECURSIVE Pow10(_)
Pow10(k) == IF k = 0 THEN 1 ELSE 10 * Pow10(k - 1)

\* A Python float: m * 2^e with MantissaBits significant bits, or zero.
Float(m, e) == [m |-> m, e |-> e]

FZero == Float(0, 0)

\* (n / d) * 2^e for n, d > 0, rounded to the nearest float, ties to even.
RECURSIVE RoundRatio(_, _, _)
RoundRatio(n, d, e) ==
    IF n >= d * Pow2(MantissaBits) THEN RoundRatio(n, 2 * d, e + 1)
    ELSE IF n < d * Pow2(MantissaBits - 1) THEN RoundRatio(2 * n, d, e - 1)
    ELSE LET q == n \div d
             r == n % d
             m == IF 2 * r > d \/ (2 * r = d /\ q % 2 = 1) THEN q + 1 ELSE q
         IN  IF m = Pow2(MantissaBits) THEN Float(Pow2(MantissaBits - 1), e + 1)
             ELSE Float(m, e)

\* n / d for integers n >= 0, d > 0: true division, correctly rounded.
FDiv(n, d) == IF n = 0 THEN FZero ELSE RoundRatio(n, d, 0)

Min(a, b) == IF a <= b THEN a ELSE b

\* x + y for floats x, y >= 0 (int 0 + float is the float).
FAdd(x, y) ==
    IF x.m = 0 THEN y
    ELSE IF y.m = 0 THEN x
    ELSE LET e == Min(x.e, y.e)
         IN  RoundRatio(x.m * Pow2(x.e - e) + y.m * Pow2(y.e - e), 1, e)

BigToInt(b) == b.coef * Pow10(b.exp)

\* The for loop of disk_usage over the records not yet added.
RECURSIVE SumQuotients(_, _, _)
SumQuotients(contents, divisor, total) ==
    IF contents = <<>> THEN total
    ELSE SumQuotients(Tail(contents), divisor,
                      FAdd(total, FDiv(Head(contents).Size, divisor)))

\* disk_usage(bucket, prefix, regex, block_size).
disk_usage(pages, regex, block_size) ==
    LET listed == list_objects(pages, FALSE, regex)
        parsed == parse_block_size(block_size)
    IN  IF listed.exc /= "None" THEN listed
        ELSE IF parsed.exc /= "None"
        THEN Raised(parsed.exc, listed.calls, <<>>, parsed.out)
        ELSE IF listed.ret /= <<>> /\ BigToInt(parsed.ret) = 0
        THEN Raised("ZeroDivisionError", listed.calls, <<>>, parsed.out)
        ELSE Returned([disk_usage |-> SumQuotients(listed.ret, BigToInt(parsed.ret), FZero),
                       units |-> block_size],
                      listed.calls, <<>>, parsed.out)

\* The block sizes given to disk_usage.
BlockSizes ==
    {<<"1", "K", "B">>, <<"3", "K", "B">>, <<"1", "M", "B">>, <<"X">>,
     <<"0", "K", "B">>, <<"X", "K", "B">>, <<"2", "Z", "Z">>}

---------------------------------------------------------------------------
(* get_metadata and search_metadata                                        *)

\* The user metadata stored with each object: (name, value) pairs.
StoredMetadata(key) ==
    CASE key = KeyA -> {<<"tag", "1">>}
      [] key = KeyB -> {}
      [] key = KeyC -> {<<"owner", "tag">>}
      [] key = KeyD -> {<<"tag", "">>, <<"owner", "x">>}

HeadCall(key) == [api |-> "head_object", key |-> key]

\* get_metadata(bucket, key): client.head_object(...)['Metadata'].  The
\* store fails the call for the keys in failing.
get_metadata(key, failing) ==
    IF key \in failing
    THEN Raised("ClientError", <<HeadCall(key)>>, <<>>, <<>>)
    ELSE Returned(StoredMetadata(key), <<HeadCall(key)>>, <<>>, <<>>)

\* dict.keys() of a metadata mapping.
DictKeys(d) == {p[1] : p \in d}

\* The for loop of search_metadata with an exception handler around the
\* fetch: a key whose fetch fails is skipped.
RECURSIVE SearchLoopIsolating(_, _, _, _, _)
SearchLoopIsolating(all_keys, metadata_key, failing, matching_keys, issued) ==
    IF all_keys = <<>> THEN Returned(matching_keys, issued, <<>>, <<>>)
    ELSE LET key == Head(all_keys)
             got == get_metadata(key, failing)
         IN  SearchLoopIsolating(Tail(all_keys), metadata_key, failing,
                 IF got.exc = "None" /\ metadata_key \in DictKeys(got.ret)
                 THEN Append(matching_keys, key) ELSE matching_keys,
                 issued \o got.calls)

\* The for loop of search_metadata over the keys not yet visited.
RECURSIVE SearchLoop(_, _, _, _, _)
SearchLoop(all_keys, metadata_key, failing, matching_keys, issued) ==
    IF all_keys = <<>> THEN Returned(matching_keys, issued, <<>>, <<>>)
    ELSE LET key == Head(all_keys)
             got == get_metadata(key, failing)
         IN  IF got.exc /= "None"
             THEN Raised(got.exc, issued \o got.calls, <<>>, <<>>)
             ELSE SearchLoop(Tail(all_keys), metadata_key, failing,
                      IF metadata_key \in DictKeys(got.ret)
                      THEN Append(matching_keys, key) ELSE matching_keys,
                      issued \o got.calls)

\* search_metadata(bucket, obj_regex, metadata_key).
search_metadata(pages, obj_regex, metadata_key, failing) ==
    LET listed == list_objects(pages, TRUE, obj_regex)
    IN  IF listed.exc /= "None" THEN listed
        ELSE SearchLoop(listed.ret, metadata_key, failing, <<>>, listed.calls)

\* The metadata names searched for.
MetadataKeys == {"tag", "owner", "project"}

---------------------------------------------------------------------------
(* delete and delete_mult                                                  *)

DeleteCall(key) == [api |-> "delete_object", key |-> key]

\* delete(bucket, key).
delete(key) == Returned(NoneValue, <<DeleteCall(key)>>, <<>>, <<>>)

\* delete_mult(bucket, obj_regex, dry_run).  The for statement iterates
\* over all_objs, a name bound neither in the function nor in the module:
\* evaluating it raises NameError before the first iteration.
delete_mult(pages, obj_regex, dry_run) ==
    LET listed == list_objects(pages, TRUE, obj_regex)
    IN  IF listed.exc /= "None" THEN listed
        ELSE CASE ~NameResolves("all_objs") ->
                  Raised("NameError", listed.calls, <<>>, <<>>)

---------------------------------------------------------------------------
(* get_filelist                                                            *)

\* Whether sub occurs in s: Python's "sub in s" for strings.
Contains(s, sub) ==
    \E i \in 0..Len(s) - Len(sub) : SubSeq(s, i + 1, i + Len(sub)) = sub

\* os.path.join(root, file) for a root that does not end with a slash.
PathJoin(root, file) == root \o <<"/">> \o file

IgnoreCurFile(full_filename, ignore) ==
    \E i \in 1..Len(ignore) : Contains(full_filename, ignore[i])

\* The inner loop of get_filelist: the files of one directory.
RECURSIVE DirFiles(_, _, _)
DirFiles(root, files, ignore) ==
    IF files = <<>> THEN <<>>
    ELSE LET full_filename == PathJoin(root, Head(files))
         IN  (IF IgnoreCurFile(full_filename, ignore) THEN <<>> ELSE <<full_filename>>)
             \o DirFiles(root, Tail(files), ignore)

\* get_filelist(local_dir, recursive, ignore): walk is what os.walk yields
\* for local_dir, top down, one (root, files) entry for each directory.
RECURSIVE get_filelist(_, _, _)
get_filelist(walk, recursive, ignore) ==
    IF walk = <<>> THEN <<>>
    ELSE LET here == DirFiles(Head(walk).root, Head(walk).files, ignore)
         IN  IF ~recursive THEN here
             ELSE here \o get_filelist(Tail(walk), recursive, ignore)

RootDir == <<"d">>
SubDir == <<"d", "/", "s">>

FileNames == {<<"a">>, <<"b">>, <<"c">>}

\* The local trees: a directory, or a directory with one subdirectory,
\* holding at most MaxFiles files.
Walks ==
    LET names == {f \in SeqsUpTo(FileNames, MaxFiles) : NoDuplicates(f)}
    IN  {<<[root |-> RootDir, files |-> f]>> : f \in names}
        \cup {<<[root |-> RootDir, files |-> w[1]], [root |-> SubDir, files |-> w[2]]>> :
                  w \in {v \in names \X names : Len(v[1]) + Len(v[2]) <= MaxFiles}}

Ignores == {<<>>, <<<<"a">>>>, <<<<"s", "/">>>>, <<<<"s", "/">>, <<"b">>>>}

---------------------------------------------------------------------------
(* interpret_metadata_str, upload_object and upload_mult_objects           *)

\* A metadata argument: a callable, a string that json.loads parses, a
\* string it does not parse (the path of a script), a dict, or a value of
\* another type.
MetadataArgs ==
    {[type |-> "function", name |-> "f"],
     [type |-> "str", name |-> "{\"a\":\"1\"}"],
     [type |-> "str", name |-> "meta.sh"],
     [type |-> "dict", name |-> "{'a': '1'}"],
     [type |-> "int", name |-> "7"]}

JsonParses(metadata) == metadata.name = "{\"a\":\"1\"}"

\* interpret_metadata_str(metadata): the callable returned.
interpret_metadata_str(metadata) ==
    IF metadata.type = "function"
    THEN Returned([callable |-> "given", of |-> metadata.name], <<>>, <<>>, <<>>)
    ELSE IF metadata.type /= "str"
    THEN Raised("AssertionError", <<>>, <<>>, <<>>)
    ELSE IF JsonParses(metadata)
    THEN Returned([callable |-> "lambda", of |-> metadata.name], <<>>, <<>>, <<>>)
    ELSE Returned([callable |-> "metadata_func", of |-> metadata.name], <<>>, <<>>, <<>>)

UploadCall(local_file, key, extra) ==
    [api |-> "upload_file", file |-> local_file, key |-> key, extra |-> extra]

\* client.upload_file: answer is "None" when the store takes the file, the
\* exception raised otherwise.
upload_file(local_file, key, extra, answer) ==
    Outcome(NoneValue, answer, <<UploadCall(local_file, key, extra)>>, <<>>, <<>>)

\* upload_object(bucket, local_file, key, metadata); metadata is NoneValue
\* when not given.
upload_object(local_file, key, metadata, answer) ==
    IF metadata = NoneValue
    THEN upload_file(local_file, key, "none", answer)
    ELSE IF metadata.type = "str"
    THEN IF JsonParses(metadata)
         THEN upload_file(local_file, key, metadata.name, answer)
         ELSE Raised("ValueError", <<>>, <<>>, <<>>)
    ELSE IF metadata.type = "dict"
    THEN upload_file(local_file, key, metadata.name, answer)
    ELSE upload_file(local_file, key, "{'Metadata': None}", answer)

UploadAnswers == {"None", "ClientError", "FileNotFoundError"}

\* upload_mult_objects(bucket, local_dir, key_prefix, recursive, ignore,
\* metadata, dry_run).  Its first statement calls _get_filelist, a name
\* bound neither in the function nor in the module (the module defines
\* get_filelist): evaluating it raises NameError.
upload_mult_objects(walk, key_prefix, recursive, ignore, metadata, dry_run) ==
    CASE ~NameResolves("_get_filelist") -> Raised("NameError", <<>>, <<>>, <<>>)

KeyPrefixes == {<<>>, <<"p", "/">>}

RegexArgs == {NoRegex} \cup {SomeRegex(r) : r \in Regexes}

---------------------------------------------------------------------------
(* The calls.                                                              *)

Finish(name, a, e, o) ==
    /\ pc' = "done"
    /\ op' = name
    /\ args' = a
    /\ env' = e
    /\ ret' = o.ret
    /\ exc' = o.exc
    /\ calls' = o.calls
    /\ events' = o.events
    /\ out' = o.out

ParseBlockSize ==
    /\ pc = "idle"
    /\ \E s \in SeqsUpTo(BlockChars, MaxStrLen) :
        Finish("parse_block_size", [block_size_str |-> s], NoneValue,
               parse_block_size(s))

ListObjects ==
    /\ pc = "idle"
    /\ \E pages \in Listings, keys_only \in BOOLEAN, regex \in RegexArgs :
        Finish("list_objects", [keys_only |-> keys_only, regex |-> regex],
               [pages |-> pages], list_objects(pages, keys_only, regex))

DiskUsage ==
    /\ pc = "idle"
    /\ \E pages \in Listings, regex \in RegexArgs, block_size \in BlockSizes :
        Finish("disk_usage", [regex |-> regex, block_size |-> block_size],
               [pages |-> pages], disk_usage(pages, regex, block_size))

SearchMetadata ==
    /\ pc = "idle"
    /\ \E pages \in Listings, regex \in RegexArgs, metadata_key \in MetadataKeys,
          failing \in SUBSET Keys :
        Finish("search_metadata", [regex |-> regex, metadata_key |-> metadata_key],
               [pages |-> pages, failing |-> failing],
               search_metadata(pages, regex, metadata_key, failing))

DeleteMult ==
    /\ pc = "idle"
    /\ \E pages \in Listings, regex \in RegexArgs, dry_run \in BOOLEAN :
        Finish("delete_mult", [regex |-> regex, dry_run |-> dry_run],
               [pages |-> pages], delete_mult(pages, regex, dry_run))

GetFilelist ==
    /\ pc = "idle"
    /\ \E walk \in Walks, recursive \in BOOLEAN, ignore \in Ignores :
        Finish("get_filelist", [recursive |-> recursive, ignore |-> ignore],
               [walk |-> walk],
               Returned(get_filelist(walk, recursive, ignore), <<>>, <<>>, <<>>))

InterpretMetadataStr ==
    /\ pc = "idle"
    /\ \E metadata \in MetadataArgs :
        Finish("interpret_metadata_str", [metadata |-> metadata], NoneValue,
               interpret_metadata_str(metadata))

UploadObject ==
    /\ pc = "idle"
    /\ \E name \in FileNames, key_prefix \in KeyPrefixes,
          metadata \in MetadataArgs \cup {NoneValue}, answer \in UploadAnswers :
        LET local_file == PathJoin(RootDir, name)
        IN  Finish("upload_object",
                   [local_file |-> local_file, key |-> key_prefix \o local_file,
                    metadata |-> metadata],
                   [answer |-> answer],
                   upload_object(local_file, key_prefix \o local_file, metadata, answer))

UploadMultObjects ==
    /\ pc = "idle"
    /\ \E walk \in Walks, key_prefix \in KeyPrefixes, recursive \in BOOLEAN,
          ignore \in Ignores, metadata \in MetadataArgs \cup {NoneValue},
          dry_run \in BOOLEAN, answer \in UploadAnswers :
        Finish("upload_mult_objects",
               [key_prefix |-> key_prefix, recursive |-> recursive, ignore |-> ignore,
                metadata |-> metadata, dry_run |-> dry_run],
               [walk |-> walk, answer |-> answer],
               upload_mult_objects(walk, key_prefix, recursive, ignore, metadata, dry_run))

\* The caller takes the outcome; the module is ready for the next call.
Return ==
    /\ pc = "done"
    /\ pc' = "idle"
    /\ op' = "none"
    /\ args' = NoneValue
    /\ env' = NoneValue
    /\ ret' = NoneValue
    /\ exc' = "None"
    /\ calls' = <<>>
    /\ events' = <<>>
    /\ out' = <<>>

Init ==
    /\ pc = "idle"
    /\ op = "none"
    /\ args = NoneValue
    /\ env = NoneValue
    /\ ret = NoneValue
    /\ exc = "None"
    /\ calls = <<>>
    /\ events = <<>>
    /\ out = <<>>

Next ==
    \/ ParseBlockSize
    \/ ListObjects
    \/ DiskUsage
    \/ SearchMetadata
    \/ DeleteMult
    \/ GetFilelist
    \/ InterpretMetadataStr
    \/ UploadObject
    \/ UploadMultObjects
    \/ Return

Spec == Init /\ [][Next]_vars

---------------------------------------------------------------------------
(* What the properties below speak of, stated without the functions above. *)

Done(name) == pc = "done" /\ op = name

\* A regular expression matches a key from its first character on.
AnchoredAtStart(regex, key) ==
    /\ Len(regex) <= Len(key)
    /\ \A i \in 1..Len(regex) : regex[i] = "." \/ regex[i] = key[i]

\* The listing raises when a page after a first page with records has none.
ListingRaises(pages) == pages[1] /= <<>> /\ \E i \in 2..Len(pages) : pages[i] = <<>>

\* The records a listing that returns has collected.
Collected(pages) == IF pages[1] = <<>> THEN <<>> ELSE Flatten(pages)

\* The regex-filtered listing.
FilteredListing(pages, regex) ==
    IF regex.given
    THEN SelectSeq(Collected(pages), LAMBDA o : AnchoredAtStart(regex.re, o.Key))
    ELSE Collected(pages)

InSeq(x, s) == \E i \in 1..Len(s) : s[i] = x

CallsTo(api) == SelectSeq(calls, LAMBDA c : c.api = api)

RECURSIVE SumSizes(_)
SumSizes(contents) ==
    IF contents = <<>> THEN 0 ELSE Head(contents).Size + SumSizes(Tail(contents))

\* The files upload_mult_objects is asked to upload.
BatchFiles == get_filelist(env.walk, args.recursive, args.ignore)

EventsOf(kind) == SelectSeq(events, LAMBDA v : v.ev = kind)

---------------------------------------------------------------------------
(* The properties.                                                         *)

\* C1: list_objects in default mode (no regex) returns every record of
\* every page the store returns exactly once, in the store's order, and
\* raises no error.
C1_ListingComplete ==
    (Done("list_objects") /\ ~args.regex.given /\ ~args.keys_only)
        => (exc = "None" /\ ret = Flatten(env.pages))

\* C2: a non-dry-run upload_mult_objects call does not raise, and issues
\* an upload for every file of the batch.
C2_BatchIsolatesFailures ==
    (Done("upload_mult_objects") /\ ~args.dry_run)
        => /\ exc = "None"
           /\ \A i \in 1..Len(BatchFiles) :
                  \E j \in 1..Len(calls) : calls[j].file = BatchFiles[i]

\* C3: a dry-run upload_mult_objects call prints one line for each file that
\* survives the ignore filter, issues no store call and raises no error.
C3_DryRunOnlyReports ==
    (Done("upload_mult_objects") /\ args.dry_run)
        => (exc = "None" /\ Len(out) = Len(BatchFiles) /\ calls = <<>>)

C5_ParseNeverFails ==
    Done("parse_block_size")
        => LET s == args.block_size_str
               wellFormed == /\ Len(s) >= 3
                             /\ IntParses(DropLast(s, 2))
                             /\ UnitName(Upper(Last(s, 2))) \in DOMAIN units
           IN  /\ exc = "None"
               /\ ret = IF wellFormed
                        THEN Big(IntValue(DropLast(s, 2)), units[UnitName(Upper(Last(s, 2)))].exp)
                        ELSE Big(1, 3)

\* C6: search_metadata fetches the metadata of each key of the
\* regex-filtered listing in turn and returns the keys whose metadata has
\* metadata_key among its names; at the first fetch that fails it stops:
\* the error leaves the call, no later key is fetched, nothing is returned.
C6_SearchStopsAtFirstFailure ==
    (Done("search_metadata") /\ ~ListingRaises(env.pages))
        => LET listing == FilteredListing(env.pages, args.regex)
               keys == [i \in 1..Len(listing) |-> listing[i].Key]
               fetches == CallsTo("head_object")
               fetched == [i \in 1..Len(fetches) |-> fetches[i].key]
               fails == {i \in 1..Len(keys) : keys[i] \in env.failing}
               has(k) == \E p \in StoredMetadata(k) : p[1] = args.metadata_key
           IN  IF fails = {}
               THEN /\ exc = "None"
                    /\ fetched = keys
                    /\ ret = SelectSeq(keys, has)
               ELSE LET first == CHOOSE i \in fails : \A j \in fails : i <= j
                    IN  /\ exc = "ClientError"
                        /\ fetched = SubSeq(keys, 1, first)
                        /\ ret = NoneValue

\* C6's case: the first key has the metadata name, the fetch of the second
\* fails, a third key follows: the call raises after two fetches.
C6_Witness ==
    /\ Done("search_metadata") /\ ~ListingRaises(env.pages)
    /\ args.metadata_key = "tag"
    /\ FilteredListing(env.pages, args.regex)
           = <<[Key |-> KeyA, Size |-> 1000], [Key |-> KeyB, Size |-> 2000],
               [Key |-> KeyD, Size |-> 100]>>
    /\ env.failing = {KeyB}
    /\ exc = "ClientError"
    /\ Len(CallsTo("head_object")) = 2

\* C7: when the listing returns, delete_mult without dry_run issues one
\* delete call for each matching key and for no other key; with dry_run it
\* issues none and prints one line for each matching key.
C7_DeleteMultDeletesMatches ==
    (Done("delete_mult") /\ ~ListingRaises(env.pages))
        => LET listing == FilteredListing(env.pages, args.regex)
               keys == [i \in 1..Len(listing) |-> listing[i].Key]
               deletes == CallsTo("delete_object")
           IN  IF args.dry_run
               THEN deletes = <<>> /\ Len(out) = Len(keys)
               ELSE deletes = [i \in 1..Len(keys) |-> DeleteCall(keys[i])]

\* C8: given a metadata specification (a callable or a string),
\* upload_mult_objects resolves it once and invokes the resolved callable
\* once for each file.
C8_MetadataResolvedOnce ==
    (Done("upload_mult_objects") /\ args.metadata /= NoneValue
        /\ args.metadata.type \in {"function", "str"})
        => /\ Len(EventsOf("interpret_metadata_str")) = 1
           /\ \A i \in 1..Len(BatchFiles) :
                  Len(SelectSeq(EventsOf("metadata_func"),
                                LAMBDA v : v.file = BatchFiles[i])) = 1

\* C9: the total disk_usage returns is the sum of the sizes of the records
\* of the regex-filtered listing divided by the divisor parsed from
\* block_size.
C9_TotalIsSumOverDivisor ==
    (Done("disk_usage") /\ exc = "None")
        => LET sum == SumSizes(FilteredListing(env.pages, args.regex))
               divisor == BigToInt(parse_block_size(args.block_size).ret)
           IN  ret.disk_usage = IF sum = 0 THEN FZero ELSE FDiv(sum, divisor)

\* C10: a non-dry-run upload_mult_objects call starts one worker for each
\* file, in file-list order, each started after the one before it was
\* joined, and the uploads issued carry key_prefix + file as their key.
C10_OneWorkerPerFile ==
    (Done("upload_mult_objects") /\ ~args.dry_run)
        => LET starts == EventsOf("start")
           IN  /\ [i \in 1..Len(starts) |-> starts[i].file] = BatchFiles
               /\ \A i \in 1..Len(events) :
                      events[i].ev = "start"
                          => (i < Len(events) /\ events[i + 1].ev = "join"
                              /\ events[i + 1].file = events[i].file)
               /\ \A j \in 1..Len(calls) : calls[j].key = args.key_prefix \o calls[j].file

===========================================================================
